---- MODULE Spec2Model ----
(***************************************************************************)
(* Model of redb's page-store geometry (layout.rs: RegionLayout and        *)
(* DatabaseLayout) and of its unix mapping backend (mmap/unix.rs: FileLock *)
(* and MmapInner).                                                         *)
(*                                                                         *)
(* The geometry code is pure; it is checked under SpecLayout, whose Init   *)
(* draws the arguments from bounded sets and whose actions apply the       *)
(* functions.  FileLock is checked under SpecLock and MmapInner under      *)
(* SpecMmap.                                                               *)
(***************************************************************************)
EXTENDS Integers, Sequences, FiniteSets, TLC

(***************************************************************************)
(* Bounds of the model.                                                    *)
(***************************************************************************)
MaxCapacity == 40
MaxDesired == 43
MaxPageCapacity == 4
MaxPageSize == 3

(***************************************************************************)
(* Collaborators of layout.rs that live in page_manager.rs and             *)
(* buddy_allocator.rs.  Their constants are scaled down so that several    *)
(* regions fit in MaxCapacity bytes.                                       *)
(***************************************************************************)
DB_HEADER_SIZE == 3
MIN_USABLE_PAGES == 2
MAX_MAX_PAGE_ORDER == 1

\* BuddyAllocatorMut::required_space(capacity) -> bytes: a fixed part and a
\* part that grows with the capacity
required_space(capacity) == 1 + (capacity + 1) \div 2

\* RegionTracker::required_bytes(num_regions, max_order) -> bytes: a fixed
\* part and, per order, a part that grows with the number of regions.  It
\* never decreases with the number of regions, and one more region costs
\* less than the smallest region (header plus MIN_USABLE_PAGES pages).
required_bytes(regions, orders) == 2 + orders * ((regions + 3) \div 4)

(***************************************************************************)
(* layout.rs                                                               *)
(***************************************************************************)
min(a, b) == IF a < b THEN a ELSE b

\* A panic (failed assertion, failed unwrap, arithmetic overflow in a build
\* with overflow checks) is the value PANIC where a number is expected.
PANIC == -1

div_even(value, denominator) ==
    IF value % denominator # 0 THEN PANIC ELSE value \div denominator

round_up_to_multiple_of(value, multiple) ==
    IF value % multiple = 0
    THEN value
    ELSE value + multiple - (value % multiple)

RegionLayout_new(num_pages, header_pages, page_size) ==
    [tag |-> "Some", num_pages |-> num_pages, header_pages |-> header_pages,
     page_size |-> page_size]

\* Option::None and an aborted call, in the shape of a RegionLayout
NoRegion(tag) == [tag |-> tag, num_pages |-> 0, header_pages |-> 0, page_size |-> 0]

RegionLayout_header_pages(page_capacity, page_size) ==
    LET header_size == required_space(page_capacity)
        padded == IF header_size % page_size # 0
                  THEN header_size + (page_size - (header_size % page_size))
                  ELSE header_size
    IN padded \div page_size

calculate_usable_pages_no_header(space, page_capacity, page_size) ==
    LET header_pages == RegionLayout_header_pages(page_capacity, page_size)
    IN IF ~(header_pages * page_size < space)
       THEN PANIC
       ELSE space \div page_size

RegionLayout_calculate_usable_pages(space, page_capacity, page_size) ==
    LET header_pages == RegionLayout_header_pages(page_capacity, page_size)
    IN IF ~(header_pages * page_size < space)
       THEN PANIC
       ELSE (space - header_pages * page_size) \div page_size

used_space_unclamped(max_region_size, available_space) == max_region_size

\* let used_space = min(max_region_size, available_space);
used_space_of(max_region_size, available_space) ==
    min(max_region_size, available_space)

RegionLayout_calculate(available_space, desired_usable_bytes, page_capacity, page_size) ==
    LET header_pages == RegionLayout_header_pages(page_capacity, page_size)
        required_header_bytes == header_pages * page_size
    IN IF desired_usable_bytes \div page_size < MIN_USABLE_PAGES
       THEN NoRegion("None")
       ELSE IF available_space < required_header_bytes + MIN_USABLE_PAGES * page_size
       THEN NoRegion("None")
       ELSE LET max_region_size == desired_usable_bytes + required_header_bytes
                used_space == used_space_of(max_region_size, available_space)
                num_pages ==
                    RegionLayout_calculate_usable_pages(used_space, page_capacity, page_size)
            IN IF num_pages = PANIC
               THEN NoRegion("Panic")
               ELSE IF num_pages < MIN_USABLE_PAGES
               THEN NoRegion("None")
               ELSE RegionLayout_new(num_pages, header_pages, page_size)

\* Option::unwrap turns None into a panic
RegionLayout_full_region_layout(page_capacity, page_size) ==
    LET max_usable_region_bytes == page_capacity * page_size
        header_bytes == RegionLayout_header_pages(page_capacity, page_size) * page_size
        max_region_size == max_usable_region_bytes + header_bytes
        r == RegionLayout_calculate(max_region_size, max_usable_region_bytes,
                                    page_capacity, page_size)
    IN IF r.tag = "Some" THEN r ELSE NoRegion("Panic")

RegionLayout_usable_bytes(r) == r.page_size * r.num_pages

RegionLayout_len(r) == r.header_pages * r.page_size + RegionLayout_usable_bytes(r)

\* The fields of DatabaseLayout, the Result's discriminant (status), and two
\* locals of calculate kept for the properties: max_regions and the place
\* where the call ended (at).
DatabaseLayout_new(superheader_pages, region_tracker_range, full_region_layout, num_full_regions, trailing_partial_region, max_regions, at) ==
    [status |-> "Ok",
     superheader_pages |-> superheader_pages,
     region_tracker_range |-> region_tracker_range,
     full_region_layout |-> full_region_layout,
     num_full_regions |-> num_full_regions,
     trailing_partial_region |-> trailing_partial_region,
     max_regions |-> max_regions,
     at |-> at]

\* Err(Error::OutOfSpace) and an aborted call, in the shape of a DatabaseLayout
NoLayout(status, max_regions, at) ==
    [status |-> status,
     superheader_pages |-> 0,
     region_tracker_range |-> [start |-> 0, end |-> 0],
     full_region_layout |-> NoRegion("None"),
     num_full_regions |-> 0,
     trailing_partial_region |-> NoRegion("None"),
     max_regions |-> max_regions,
     at |-> at]

max_regions_rounded_down(db_capacity, min_header_size, full_len, overflow_checks) ==
    LET diff == db_capacity - min_header_size
    IN IF diff < 0 THEN PANIC ELSE diff \div full_len

\* ((db_capacity - (min_header_size as u64) + full_region_layout.len() - 1)
\*     / full_region_layout.len()).try_into().unwrap()
\* u64 arithmetic, evaluated left to right.  With overflow checks (debug
\* builds) a negative intermediate result panics.  Without them (release
\* builds) the value wraps modulo 2^64; diff and sum are the two's complement
\* representatives of the wrapped values, so a negative sum stands for a
\* dividend of at least 2^63, whose quotient by a region length below 2^31
\* exceeds u32::MAX and fails the conversion.
max_regions_of(db_capacity, min_header_size, full_len, overflow_checks) ==
    LET diff == db_capacity - min_header_size
        sum == diff + full_len - 1
    IN IF overflow_checks /\ diff < 0
       THEN PANIC
       ELSE IF sum < 0
       THEN PANIC
       ELSE sum \div full_len

single_region_if_no_second_full(desired_usable_bytes, db_capacity, superheader_bytes, full) ==
    \/ desired_usable_bytes <= RegionLayout_usable_bytes(full)
    \/ db_capacity - superheader_bytes < 2 * RegionLayout_len(full)

\* if desired_usable_bytes <= full_region_layout.usable_bytes()
\*     || db_capacity - (superheader_bytes as u64) <= full_region_layout.len()
single_region(desired_usable_bytes, db_capacity, superheader_bytes, full) ==
    \/ desired_usable_bytes <= RegionLayout_usable_bytes(full)
    \/ db_capacity - superheader_bytes <= RegionLayout_len(full)

remaining_space_whole(db_capacity, superheader_bytes, num_full_regions, full) ==
    db_capacity - superheader_bytes

\* let remaining_space = db_capacity - (superheader_bytes as u64)
\*     - num_full_regions * full_region_layout.len();
remaining_space_of(db_capacity, superheader_bytes, num_full_regions, full) ==
    db_capacity - superheader_bytes - num_full_regions * RegionLayout_len(full)

\* The single-region branch of DatabaseLayout::calculate
single_region_layout(db_capacity, desired_usable_bytes, page_capacity, page_size, full, max_regions, region_tracker_range, superheader_bytes) ==
    LET region_layout == RegionLayout_calculate(db_capacity - superheader_bytes,
                             desired_usable_bytes, page_capacity, page_size)
        superheader_pages == div_even(superheader_bytes, page_size)
    IN IF region_layout.tag = "Panic"
       THEN NoLayout("Panic", max_regions, "calculate_usable_pages")
       ELSE IF region_layout.tag = "None"
       THEN NoLayout("OutOfSpace", max_regions, "single region")
       ELSE IF superheader_pages = PANIC
       THEN NoLayout("Panic", max_regions, "div_even")
       ELSE DatabaseLayout_new(superheader_pages, region_tracker_range, full, 0,
                               region_layout, max_regions, "single region")

\* The multi-region branch of DatabaseLayout::calculate
multi_region_layout(db_capacity, desired_usable_bytes, page_capacity, page_size, full, max_regions, region_tracker_range, superheader_bytes) ==
    LET max_full_regions == (db_capacity - superheader_bytes) \div RegionLayout_len(full)
        desired_full_regions == desired_usable_bytes \div RegionLayout_usable_bytes(full)
        num_full_regions == min(max_full_regions, desired_full_regions)
        remaining_space ==
            remaining_space_of(db_capacity, superheader_bytes, num_full_regions, full)
        remaining_desired ==
            desired_usable_bytes - num_full_regions * RegionLayout_usable_bytes(full)
        trailing_region == RegionLayout_calculate(remaining_space, remaining_desired,
                                                  page_capacity, page_size)
        superheader_pages == div_even(superheader_bytes, page_size)
    IN IF remaining_space < 0 \/ remaining_desired < 0
       THEN NoLayout("Panic", max_regions, "subtraction")
       ELSE IF ~(num_full_regions > 0)
       THEN NoLayout("Panic", max_regions, "assert num_full_regions > 0")
       ELSE IF trailing_region.tag = "Panic"
       THEN NoLayout("Panic", max_regions, "calculate_usable_pages")
       ELSE IF /\ trailing_region.tag = "Some"
               /\ trailing_region.header_pages # full.header_pages
       THEN NoLayout("Panic", max_regions, "assert_eq header_pages")
       ELSE IF superheader_pages = PANIC
       THEN NoLayout("Panic", max_regions, "div_even")
       ELSE DatabaseLayout_new(superheader_pages, region_tracker_range, full,
                               num_full_regions, trailing_region, max_regions,
                               "multi region")

\* overflow_checks is the build's choice between panicking and wrapping on
\* integer overflow.
DatabaseLayout_calculate(db_capacity, desired_usable_bytes_arg, page_capacity, page_size, overflow_checks) ==
    LET desired_usable_bytes == min(desired_usable_bytes_arg, db_capacity)
        full == RegionLayout_full_region_layout(page_capacity, page_size)
        min_header_size == DB_HEADER_SIZE + required_bytes(1, MAX_MAX_PAGE_ORDER + 1)
        max_regions == max_regions_of(db_capacity, min_header_size,
                                      RegionLayout_len(full), overflow_checks)
        db_header_bytes ==
            DB_HEADER_SIZE + required_bytes(max_regions, MAX_MAX_PAGE_ORDER + 1)
        region_tracker_range == [start |-> DB_HEADER_SIZE, end |-> db_header_bytes]
        superheader_bytes == round_up_to_multiple_of(db_header_bytes, page_size)
    IN IF full.tag = "Panic"
       THEN NoLayout("Panic", 0, "full_region_layout")
       ELSE IF max_regions = PANIC
       THEN NoLayout("Panic", 0, "max_regions")
       ELSE IF db_capacity < superheader_bytes + MIN_USABLE_PAGES * page_size
       THEN NoLayout("OutOfSpace", max_regions, "superheader")
       ELSE IF single_region(desired_usable_bytes, db_capacity, superheader_bytes, full)
       THEN single_region_layout(db_capacity, desired_usable_bytes, page_capacity,
                page_size, full, max_regions, region_tracker_range, superheader_bytes)
       ELSE multi_region_layout(db_capacity, desired_usable_bytes, page_capacity,
                page_size, full, max_regions, region_tracker_range, superheader_bytes)

DatabaseLayout_num_regions(l) ==
    IF l.trailing_partial_region.tag = "Some"
    THEN l.num_full_regions + 1
    ELSE l.num_full_regions

DatabaseLayout_superheader_bytes(l) == l.superheader_pages * l.full_region_layout.page_size

\* assert!(region < self.num_regions()) fails to PANIC
DatabaseLayout_region_base_address(l, region) ==
    IF ~(region < DatabaseLayout_num_regions(l)) \/ region < 0
    THEN PANIC
    ELSE DatabaseLayout_superheader_bytes(l)
            + region * RegionLayout_len(l.full_region_layout)

DatabaseLayout_region_layout(l, region) ==
    IF ~(region < DatabaseLayout_num_regions(l)) \/ region < 0
    THEN NoRegion("Panic")
    ELSE IF region = l.num_full_regions
    THEN l.trailing_partial_region
    ELSE l.full_region_layout

DatabaseLayout_len(l) ==
    LET last == DatabaseLayout_num_regions(l) - 1
        base == DatabaseLayout_region_base_address(l, last)
    IN IF base = PANIC
       THEN PANIC
       ELSE base + RegionLayout_len(DatabaseLayout_region_layout(l, last))

DatabaseLayout_region_tracker_address_range(l) == l.region_tracker_range

(***************************************************************************)
(* The state: the call under way (layout.rs), the advisory lock and the    *)
(* FileLock values (unix.rs), the mappings and the MmapInner values        *)
(* (unix.rs).                                                              *)
(***************************************************************************)
VARIABLES pc, args, ret,
          flock_owner, file_locks, lock_ret, last_new,
          inner, file_len, vm, created, unmaps, last_op

layout_vars == <<pc, args, ret>>
lock_vars == <<flock_owner, file_locks, lock_ret, last_new>>
mmap_vars == <<inner, file_len, vm, created, unmaps, last_op>>
vars == <<layout_vars, lock_vars, mmap_vars>>

LayoutArgs ==
    [space : 0..MaxCapacity,
     desired_usable_bytes : 0..MaxDesired,
     page_capacity : 1..MaxPageCapacity,
     page_size : 1..MaxPageSize,
     overflow_checks : BOOLEAN]

NoCall == [db |-> NoLayout("None", 0, "none"), region |-> NoRegion("None")]

\* No call of layout.rs under way: no arguments and no result
LayoutIdle ==
    /\ pc = "idle"
    /\ args = <<>>
    /\ ret = <<>>

\* The arguments of one call, drawn from the bounded sets
LayoutStart ==
    /\ pc = "start"
    /\ args \in LayoutArgs
    /\ ret = NoCall

\* DatabaseLayout::calculate(db_capacity, desired_usable_bytes, page_capacity, page_size)
CallDatabaseLayout_calculate ==
    /\ pc = "start"
    /\ pc' = "DatabaseLayout::calculate"
    /\ ret' = [ret EXCEPT !.db =
                  DatabaseLayout_calculate(args.space, args.desired_usable_bytes,
                      args.page_capacity, args.page_size, args.overflow_checks)]
    /\ UNCHANGED <<args, lock_vars, mmap_vars>>

\* RegionLayout::calculate(available_space, desired_usable_bytes, page_capacity, page_size)
CallRegionLayout_calculate ==
    /\ pc = "start"
    /\ pc' = "RegionLayout::calculate"
    /\ ret' = [ret EXCEPT !.region =
                  RegionLayout_calculate(args.space, args.desired_usable_bytes,
                      args.page_capacity, args.page_size)]
    /\ UNCHANGED <<args, lock_vars, mmap_vars>>

\* RegionLayout::full_region_layout(page_capacity, page_size)
CallRegionLayout_full_region_layout ==
    /\ pc = "start"
    /\ pc' = "RegionLayout::full_region_layout"
    /\ ret' = [ret EXCEPT !.region =
                  RegionLayout_full_region_layout(args.page_capacity, args.page_size)]
    /\ UNCHANGED <<args, lock_vars, mmap_vars>>

(***************************************************************************)
(* mmap/unix.rs: FileLock.  A handle is one open file description of the   *)
(* backing file (one File); the kernel grants the flock lock to at most    *)
(* one open file description.                                              *)
(***************************************************************************)
NumHandles == 4

Handles == 1..NumHandles

\* last_new records the latest FileLock::new: the lock's owner and the
\* FileLock values before and after it, and its Result
NoNew == [handle |-> 0, owner_before |-> 0, locks_before |-> {},
          owner_after |-> 0, locks_after |-> {}, result |-> "none"]

LockIdle ==
    /\ flock_owner = 0
    /\ file_locks = {}
    /\ lock_ret = [h \in Handles |-> "none"]
    /\ last_new = NoNew

\* flock(fd, LOCK_EX | LOCK_NB) as the kernel answers it: 0 when the lock is
\* free or already held through fd, else -1 with errno EWOULDBLOCK.  A valid
\* descriptor and LOCK_NB leave no other error but ENOLCK (kernel memory
\* exhausted), which is not modelled.
flock_ex_nb(owner, fd) ==
    IF owner = 0 \/ owner = fd
    THEN [result |-> 0, errno |-> "none", owner |-> fd]
    ELSE [result |-> -1, errno |-> "EWOULDBLOCK", owner |-> owner]

\* flock(fd, LOCK_UN)
flock_un(owner, fd) == IF owner = fd THEN 0 ELSE owner

FileLock_new_unchecked(result, errno) == "Ok"

\* The Result of FileLock::new from flock's return value and errno
FileLock_new_result(result, errno) ==
    IF result # 0
    THEN IF errno = "EWOULDBLOCK" THEN "DatabaseAlreadyOpen" ELSE "Io"
    ELSE "Ok"

\* FileLock::new(file), for a file that has no FileLock yet
FileLock_new(h) ==
    /\ h \notin file_locks
    /\ LET k == flock_ex_nb(flock_owner, h)
           r == FileLock_new_result(k.result, k.errno)
       IN /\ flock_owner' = k.owner
          /\ file_locks' = IF r = "Ok" THEN file_locks \cup {h} ELSE file_locks
          /\ lock_ret' = [lock_ret EXCEPT ![h] = r]
          /\ last_new' = [handle |-> h, owner_before |-> flock_owner,
                          locks_before |-> file_locks, owner_after |-> flock_owner',
                          locks_after |-> file_locks', result |-> r]
    /\ UNCHANGED <<layout_vars, mmap_vars>>

\* Drop for FileLock
FileLock_drop(h) ==
    /\ h \in file_locks
    /\ flock_owner' = flock_un(flock_owner, h)
    /\ file_locks' = file_locks \ {h}
    /\ UNCHANGED <<lock_ret, last_new, layout_vars, mmap_vars>>

(***************************************************************************)
(* mmap/unix.rs: MmapInner.  A handle is one Mmap with its own backing     *)
(* file.  The address space is NumAddrs slots of MaxMapLen pages; vm[a] is *)
(* the set of mapped page offsets of slot a, and a mapping's base address  *)
(* is its slot.  created and unmaps record, for the properties, what       *)
(* create_mapping returned and how often the mapping was unmapped; last_op *)
(* records the latest operation, every operation setting it anew.          *)
(***************************************************************************)
NumMaps == 2
MaxMapLen == 1

Maps == 1..NumMaps
Addrs == 1..NumMaps
MAP_FAILED == 0

NoInner == [state |-> "none", mmap |-> 0, capacity |-> 0]

NoMapping == [mmap |-> 0, capacity |-> 0]

NoOp == [op |-> "none", handle |-> 0, result |-> "none", new_len |-> 0,
         set_len |-> "none", remap |-> [attempted |-> FALSE, addr |-> 0, len |-> 0]]

MmapIdle ==
    /\ inner = [h \in Maps |-> NoInner]
    /\ file_len = [h \in Maps |-> 0]
    /\ vm = [a \in Addrs |-> {}]
    /\ created = [h \in Maps |-> NoMapping]
    /\ unmaps = [h \in Maps |-> 0]
    /\ last_op = NoOp

Pages(len) == 0..(len - 1)

\* mmap(NULL, len, ..., MAP_SHARED, fd, 0): the addresses the kernel may
\* return, MAP_FAILED included (len = 0 is EINVAL, no free range is ENOMEM,
\* and any call may fail for lack of memory)
mmap_anywhere(len) ==
    {MAP_FAILED} \cup (IF len = 0 THEN {} ELSE {a \in Addrs : vm[a] = {}})

\* mmap(addr, len, ..., MAP_SHARED | MAP_FIXED, fd, 0): addr itself, or
\* MAP_FAILED
mmap_fixed(addr, len) ==
    {MAP_FAILED} \cup (IF len = 0 THEN {} ELSE {addr})

\* munmap(addr, len): EINVAL and no effect when len = 0
munmap(addr, len) ==
    IF len = 0 THEN vm ELSE [vm EXCEPT ![addr] = @ \ Pages(len)]

\* MmapInner::create_mapping(file, _len, max_capacity) for a new handle; mmap
\* is the address the kernel returns
create_mapping(h, max_capacity, mmap) ==
    /\ inner[h].state # "live"
    /\ mmap \in mmap_anywhere(max_capacity)
    /\ IF mmap = MAP_FAILED
       THEN /\ UNCHANGED <<inner, vm, created, unmaps>>
            /\ last_op' = [NoOp EXCEPT !.op = "create_mapping", !.handle = h,
                                       !.result = "Io"]
       ELSE /\ vm' = [vm EXCEPT ![mmap] = Pages(max_capacity)]
            /\ inner' = [inner EXCEPT ![h] =
                            [state |-> "live", mmap |-> mmap, capacity |-> max_capacity]]
            /\ created' = [created EXCEPT ![h] =
                              [mmap |-> mmap, capacity |-> max_capacity]]
            /\ unmaps' = [unmaps EXCEPT ![h] = 0]
            /\ last_op' = [NoOp EXCEPT !.op = "create_mapping", !.handle = h,
                                       !.result = "Ok"]
    /\ UNCHANGED <<file_len, layout_vars, lock_vars>>

resize_maps_new_len(capacity, new_len) == new_len

\* The length resize passes to mmap: self.capacity
resize_map_len(capacity, new_len) == capacity

\* MmapInner::resize(new_len, owner); set_len_ok is the outcome of
\* owner.file.set_len(new_len) and mmap the address the remap returns.  A
\* remap that fails is taken to leave the mapping as it was.
resize(h, new_len, set_len_ok, mmap) ==
    /\ inner[h].state = "live"
    /\ LET len == resize_map_len(inner[h].capacity, new_len)
           op == [NoOp EXCEPT !.op = "resize", !.handle = h, !.new_len = new_len]
       IN IF ~set_len_ok
          THEN /\ mmap = MAP_FAILED
               /\ UNCHANGED <<file_len, vm>>
               /\ last_op' = [op EXCEPT !.result = "Io", !.set_len = "Err"]
          ELSE /\ mmap \in mmap_fixed(inner[h].mmap, len)
               /\ file_len' = [file_len EXCEPT ![h] = new_len]
               /\ vm' = IF mmap = MAP_FAILED
                        THEN vm
                        ELSE [vm EXCEPT ![mmap] = @ \cup Pages(len)]
               /\ last_op' = [op EXCEPT
                      !.result = IF mmap = MAP_FAILED THEN "Io"
                                 ELSE IF mmap # inner[h].mmap THEN "Panic"
                                 ELSE "Ok",
                      !.set_len = "Ok",
                      !.remap = [attempted |-> TRUE, addr |-> inner[h].mmap,
                                 len |-> len]]
    /\ UNCHANGED <<inner, created, unmaps, layout_vars, lock_vars>>

\* MmapInner::flush(owner) of a build without cfg(fuzzing), not on macos:
\* msync(self.mmap, owner.len(), MS_SYNC), which succeeds or fails
flush(h, msync_ok) ==
    /\ inner[h].state = "live"
    /\ last_op' = [NoOp EXCEPT !.op = "flush", !.handle = h,
                               !.result = IF msync_ok THEN "Ok" ELSE "Io"]
    /\ UNCHANGED <<inner, file_len, vm, created, unmaps, layout_vars, lock_vars>>

\* MmapInner::eventual_flush(owner), not on macos: self.flush(owner)
eventual_flush(h, msync_ok) ==
    /\ inner[h].state = "live"
    /\ last_op' = [NoOp EXCEPT !.op = "eventual_flush", !.handle = h,
                               !.result = IF msync_ok THEN "Ok" ELSE "Io"]
    /\ UNCHANGED <<inner, file_len, vm, created, unmaps, layout_vars, lock_vars>>

drop_unmaps_nothing(capacity) == 0

\* The length Drop passes to munmap: self.capacity
drop_unmap_len(capacity) == capacity

\* Drop for MmapInner; the value is gone afterwards
MmapInner_drop(h) ==
    /\ inner[h].state = "live"
    /\ vm' = munmap(inner[h].mmap, drop_unmap_len(inner[h].capacity))
    /\ inner' = [inner EXCEPT ![h] = [NoInner EXCEPT !.state = "dropped"]]
    /\ unmaps' = [unmaps EXCEPT ![h] = @ + 1]
    /\ created' = [created EXCEPT ![h] = NoMapping]
    /\ last_op' = [NoOp EXCEPT !.op = "drop", !.handle = h, !.result = "Ok"]
    /\ UNCHANGED <<file_len, layout_vars, lock_vars>>

(***************************************************************************)
(* The specifications                                                      *)
(***************************************************************************)
InitLayout == LayoutStart /\ LockIdle /\ MmapIdle

NextLayout ==
    \/ CallDatabaseLayout_calculate
    \/ CallRegionLayout_calculate
    \/ CallRegionLayout_full_region_layout

SpecLayout == InitLayout /\ [][NextLayout]_vars

InitLock == LayoutIdle /\ LockIdle /\ MmapIdle

NextLock ==
    \/ \E h \in Handles : FileLock_new(h)
    \/ \E h \in Handles : FileLock_drop(h)

SpecLock == InitLock /\ [][NextLock]_vars

InitMmap == LayoutIdle /\ LockIdle /\ MmapIdle

NextMmap ==
    \/ \E h \in Maps, max_capacity \in 0..MaxMapLen, mmap \in Addrs \cup {MAP_FAILED} :
           create_mapping(h, max_capacity, mmap)
    \/ \E h \in Maps, new_len \in 0..MaxMapLen, set_len_ok \in BOOLEAN,
          mmap \in Addrs \cup {MAP_FAILED} :
           resize(h, new_len, set_len_ok, mmap)
    \/ \E h \in Maps, msync_ok \in BOOLEAN : flush(h, msync_ok)
    \/ \E h \in Maps, msync_ok \in BOOLEAN : eventual_flush(h, msync_ok)
    \/ \E h \in Maps : MmapInner_drop(h)

SpecMmap == InitMmap /\ [][NextMmap]_vars

(***************************************************************************)
(* Properties of layout.rs, checked under SpecLayout.                      *)
(***************************************************************************)
DbDone == pc = "DatabaseLayout::calculate"

DbReturned == DbDone /\ ret.db.status = "Ok"

\* desired_usable_bytes = min(desired_usable_bytes, db_capacity), as seen by
\* a caller
ClampedDesired == min(args.desired_usable_bytes, args.space)

\* The space and the desired bytes left after the full regions of the
\* returned layout, computed from the layout's accessors
SpaceAfterFullRegions ==
    args.space - DatabaseLayout_superheader_bytes(ret.db)
        - ret.db.num_full_regions * RegionLayout_len(ret.db.full_region_layout)

DesiredAfterFullRegions ==
    ClampedDesired
        - ret.db.num_full_regions * RegionLayout_usable_bytes(ret.db.full_region_layout)

\* C1: every layout DatabaseLayout::calculate returns has len() <= db_capacity
\* (and len() itself does not abort).
C1_LenWithinCapacity ==
    DbReturned =>
        /\ DatabaseLayout_len(ret.db) # PANIC
        /\ DatabaseLayout_len(ret.db) <= args.space

\* A multi-region layout with a trailing region that fills the capacity
\* to the last byte
C1_Witness ==
    /\ DbReturned
    /\ ret.db.num_full_regions >= 2
    /\ ret.db.trailing_partial_region.tag = "Some"
    /\ DatabaseLayout_len(ret.db) = args.space

\* C2: DatabaseLayout::calculate returns a layout or OutOfSpace for every
\* db_capacity and every positive page_capacity and page_size, never aborts,
\* and returns OutOfSpace when db_capacity < superheader_bytes +
\* MIN_USABLE_PAGES * page_size.
C2_NeverAborts ==
    DbDone =>
        /\ ret.db.status \in {"Ok", "OutOfSpace"}
        /\ LET superheader_bytes ==
                   round_up_to_multiple_of(
                       DB_HEADER_SIZE
                           + required_bytes(ret.db.max_regions, MAX_MAX_PAGE_ORDER + 1),
                       args.page_size)
           IN args.space < superheader_bytes + MIN_USABLE_PAGES * args.page_size
                  => ret.db.status = "OutOfSpace"

\* C3 as stated: a single region is planned exactly when the desired bytes
\* fit one full region or the space after the superheader is below two full
\* regions.
C3_SingleIffNoSecondFullRegion ==
    DbReturned =>
        LET full == ret.db.full_region_layout
            single == /\ ret.db.num_full_regions = 0
                      /\ ret.db.trailing_partial_region.tag = "Some"
        IN single <=>
              \/ args.desired_usable_bytes <= RegionLayout_usable_bytes(full)
              \/ args.space - DatabaseLayout_superheader_bytes(ret.db)
                     < 2 * RegionLayout_len(full)

\* C3 amended: a single region is planned exactly when the desired bytes fit
\* one full region or the space after the superheader is at most one full
\* region; every other layout has num_full_regions >= 1, and the assertion
\* num_full_regions > 0 never fails.
C3_SingleIffAtMostOneFullRegion ==
    /\ DbDone => ret.db.at # "assert num_full_regions > 0"
    /\ DbReturned =>
        LET full == ret.db.full_region_layout
            single == /\ ret.db.num_full_regions = 0
                      /\ ret.db.trailing_partial_region.tag = "Some"
        IN /\ single <=>
                \/ args.desired_usable_bytes <= RegionLayout_usable_bytes(full)
                \/ args.space - DatabaseLayout_superheader_bytes(ret.db)
                       <= RegionLayout_len(full)
           /\ ~single => ret.db.num_full_regions >= 1

\* One full region and a remainder, where the space is more than one full
\* region and less than two
C3_Witness ==
    /\ DbReturned
    /\ ret.db.num_full_regions = 1
    /\ args.space - DatabaseLayout_superheader_bytes(ret.db)
           > RegionLayout_len(ret.db.full_region_layout)
    /\ args.space - DatabaseLayout_superheader_bytes(ret.db)
           < 2 * RegionLayout_len(ret.db.full_region_layout)

\* C4 as stated: in the multi-region branch a non-zero remainder of space or
\* of desired bytes always yields a trailing region.
C4_RemainderNeverDropped ==
    (DbReturned /\ ret.db.num_full_regions >= 1) =>
        ((SpaceAfterFullRegions # 0 \/ DesiredAfterFullRegions # 0)
            => ret.db.trailing_partial_region.tag = "Some")

\* C4 amended: in the multi-region branch the trailing region is None
\* exactly when the remaining desired bytes hold fewer than MIN_USABLE_PAGES
\* pages or the remaining space is below the region header plus
\* MIN_USABLE_PAGES pages.
C4_TrailingNoneIffRemainderTooSmall ==
    (DbReturned /\ ret.db.num_full_regions >= 1) =>
        LET full == ret.db.full_region_layout
        IN ret.db.trailing_partial_region.tag = "None" <=>
              \/ DesiredAfterFullRegions \div full.page_size < MIN_USABLE_PAGES
              \/ SpaceAfterFullRegions
                     < (full.header_pages + MIN_USABLE_PAGES) * full.page_size

\* A non-zero remainder of space and of desired bytes that is dropped
C4_Witness ==
    /\ DbReturned
    /\ ret.db.num_full_regions >= 1
    /\ ret.db.trailing_partial_region.tag = "None"
    /\ SpaceAfterFullRegions > 0
    /\ DesiredAfterFullRegions > 0

\* C5 as stated: for every positive page_capacity and page_size,
\* full_region_layout returns a region with num_pages = page_capacity and
\* the given page_size.
C5_FullRegionForPositiveInputs ==
    pc = "RegionLayout::full_region_layout" =>
        /\ ret.region.tag = "Some"
        /\ ret.region.num_pages = args.page_capacity
        /\ ret.region.page_size = args.page_size

\* C5 amended: for page_capacity >= MIN_USABLE_PAGES and positive page_size,
\* full_region_layout returns a region with num_pages = page_capacity and the
\* given page_size, whose usable bytes are page_capacity * page_size and
\* whose length is that plus the header pages.
C5_FullRegionAddressesCapacity ==
    (pc = "RegionLayout::full_region_layout"
        /\ args.page_capacity >= MIN_USABLE_PAGES) =>
        /\ ret.region.tag = "Some"
        /\ ret.region.num_pages = args.page_capacity
        /\ ret.region.page_size = args.page_size
        /\ RegionLayout_usable_bytes(ret.region) = args.page_capacity * args.page_size
        /\ RegionLayout_len(ret.region) =
               args.page_capacity * args.page_size
                   + RegionLayout_header_pages(args.page_capacity, args.page_size)
                         * args.page_size

\* A full region whose header takes more than one page
C5_Witness ==
    /\ pc = "RegionLayout::full_region_layout"
    /\ args.page_capacity = MaxPageCapacity
    /\ args.page_size = 2
    /\ ret.region.tag = "Some"
    /\ ret.region.header_pages > 1

\* C6: a region returned by RegionLayout::calculate has len() <=
\* available_space and usable_bytes() <= desired_usable_bytes.
C6_RegionWithinSpaceAndDesired ==
    (pc = "RegionLayout::calculate" /\ ret.region.tag = "Some") =>
        /\ RegionLayout_len(ret.region) <= args.space
        /\ RegionLayout_usable_bytes(ret.region) <= args.desired_usable_bytes

\* A region cut down by the available space: it fills the space and
\* provisions less than desired
C6_Witness ==
    /\ pc = "RegionLayout::calculate"
    /\ ret.region.tag = "Some"
    /\ RegionLayout_len(ret.region) = args.space
    /\ RegionLayout_usable_bytes(ret.region) < args.desired_usable_bytes

\* C10: the region tracker range of a returned layout starts at
\* DB_HEADER_SIZE, ends at or before superheader_bytes() (the end rounded up
\* to a whole page), and is sized by required_bytes for max_regions, which is
\* at least num_regions() of this layout and of every layout calculate
\* returns for the same db_capacity, page_capacity and page_size.
C10_TrackerSizedForMaxRegions ==
    DbReturned =>
        LET range == DatabaseLayout_region_tracker_address_range(ret.db)
            superheader_bytes == DatabaseLayout_superheader_bytes(ret.db)
        IN /\ range.start = DB_HEADER_SIZE
           /\ range.end <= superheader_bytes
           /\ superheader_bytes < range.end + args.page_size
           /\ superheader_bytes % args.page_size = 0
           /\ range.end - range.start
                  = required_bytes(ret.db.max_regions, MAX_MAX_PAGE_ORDER + 1)
           /\ ret.db.max_regions >= DatabaseLayout_num_regions(ret.db)
           /\ \A desired \in 0..MaxDesired :
                  LET other == DatabaseLayout_calculate(args.space, desired,
                                   args.page_capacity, args.page_size,
                                   args.overflow_checks)
                  IN other.status = "Ok" =>
                        /\ other.region_tracker_range = range
                        /\ DatabaseLayout_num_regions(other) <= ret.db.max_regions

\* A layout with as many regions as the tracker is sized for, more than one
C10_Witness ==
    /\ DbReturned
    /\ ret.db.max_regions >= 3
    /\ DatabaseLayout_num_regions(ret.db) = ret.db.max_regions

(***************************************************************************)
(* Properties of FileLock, checked under SpecLock.                         *)
(***************************************************************************)
\* C7: at most one FileLock exists at any time; an acquisition while no
\* handle holds the lock succeeds (the first one, and one made after the
\* holder was dropped); an acquisition while another handle holds the lock
\* returns DatabaseAlreadyOpen and leaves the holder's lock as it was.
C7_OneFileLock ==
    /\ Cardinality(file_locks) <= 1
    /\ file_locks = IF flock_owner = 0 THEN {} ELSE {flock_owner}
    /\ last_new.handle # 0 =>
          IF last_new.owner_before = 0
          THEN /\ last_new.result = "Ok"
               /\ last_new.owner_after = last_new.handle
               /\ last_new.locks_after = {last_new.handle}
          ELSE /\ last_new.owner_before # last_new.handle
               /\ last_new.result = "DatabaseAlreadyOpen"
               /\ last_new.owner_after = last_new.owner_before
               /\ last_new.locks_after = last_new.locks_before

\* Handle 1 acquired the lock and handle 3 was refused; after handle 1 was
\* dropped handle 2 acquired it
C7_Witness ==
    /\ lock_ret[1] = "Ok"
    /\ lock_ret[3] = "DatabaseAlreadyOpen"
    /\ last_new.handle = 2
    /\ last_new.result = "Ok"
    /\ file_locks = {2}

(***************************************************************************)
(* Properties of MmapInner, checked under SpecMmap.                        *)
(***************************************************************************)
Live == {h \in Maps : inner[h].state = "live"}

C8_State ==
    \A h \in Live :
        /\ inner[h].mmap = created[h].mmap
        /\ inner[h].capacity = created[h].capacity
        /\ vm[inner[h].mmap] = Pages(created[h].capacity)

C8_ResizeStep ==
    last_op'.op = "resize" =>
        LET h == last_op'.handle
        IN /\ last_op'.result \in {"Ok", "Io"}
           /\ UNCHANGED <<inner, created, vm, unmaps>>
           /\ inner[h].state = "live"
           /\ \A g \in Maps \ {h} : file_len'[g] = file_len[g]
           /\ last_op'.remap.attempted =>
                 /\ last_op'.set_len = "Ok"
                 /\ file_len'[h] = last_op'.new_len
                 /\ last_op'.remap.addr = created[h].mmap
                 /\ last_op'.remap.len = created[h].capacity
           /\ last_op'.result = "Ok" => last_op'.remap.attempted
           /\ last_op'.set_len = "Err" =>
                 /\ last_op'.result = "Io"
                 /\ ~last_op'.remap.attempted
                 /\ file_len'[h] = file_len[h]

\* C8: a live handle keeps the base address and capacity create_mapping gave
\* it, mapped over that capacity; every resize step sets the file length to
\* new_len and then remaps at that base over that capacity, changing nothing
\* else; when set_len fails it returns an I/O error, the length is unchanged
\* and no remap is attempted.
C8_ResizeKeepsBaseAndCapacity == []C8_State /\ [][C8_ResizeStep]_vars

\* A successful resize to a length below the capacity, with every handle live
C8_Witness ==
    /\ last_op.op = "resize"
    /\ last_op.result = "Ok"
    /\ file_len[last_op.handle] = last_op.new_len
    /\ last_op.new_len < inner[last_op.handle].capacity
    /\ Live = Maps

C9_State ==
    /\ Cardinality({a \in Addrs : vm[a] # {}}) = Cardinality(Live)
    /\ \A h \in Live :
          /\ vm[inner[h].mmap] = Pages(inner[h].capacity)
          /\ inner[h].capacity > 0
          /\ unmaps[h] = 0
          /\ \A g \in Live : g # h => inner[g].mmap # inner[h].mmap
    /\ \A h \in Maps : inner[h].state = "dropped" => unmaps[h] = 1

C9_Step ==
    /\ (last_op'.op = "create_mapping" /\ last_op'.result = "Io") =>
          UNCHANGED <<inner, vm>>
    /\ (last_op'.op = "create_mapping" /\ last_op'.result = "Ok") =>
          Cardinality(Live') = Cardinality(Live) + 1
    /\ last_op'.op = "drop" =>
          LET h == last_op'.handle
          IN /\ vm' = [vm EXCEPT ![inner[h].mmap] = {}]
             /\ unmaps'[h] = unmaps[h] + 1
             /\ Live' = Live \ {h}
    /\ last_op'.op \in {"resize", "flush", "eventual_flush"} =>
          UNCHANGED <<vm, unmaps>> /\ Live' = Live

\* C9: the live mappings are those of the live handles, each over its full
\* capacity at its own base; dropping a handle unmaps its mapping once and
\* whole; a failed create_mapping leaves no handle and no mapping; resize and
\* flush add and remove none.
C9_MappingsMatchHandles == []C9_State /\ [][C9_Step]_vars

\* A handle was dropped, its mapping unmapped once, while another handle and
\* its mapping stay live
C9_Witness ==
    /\ last_op.op = "drop"
    /\ inner[last_op.handle].state = "dropped"
    /\ unmaps[last_op.handle] = 1
    /\ Live # {}
    /\ \A a \in Addrs : vm[a] # {} <=> \E h \in Live : inner[h].mmap = a

====
